---- MODULE Spec2Model ----
(***************************************************************************)
(* Outbound HTTP resilience layer of the BFF (src/lib/bff/web-client).     *)
(*                                                                         *)
(* The repository holds several variants of the layer side by side.  This  *)
(* module models them as separate state machines over disjoint variables:  *)
(*                                                                         *)
(*   Spec          api/client.ts 427-634: fetchApi over the hand-written   *)
(*                 withRetry and CircuitBreaker, one breaker per host.     *)
(*   SpecPolicy    api/client.ts 48-94 and 316-355: the two getPolicy      *)
(*                 caches of cockatiel policies.                           *)
(*   SpecEndpoint  config/resilience.ts 126-220 with endpoints.ts:         *)
(*                 bffApiClient over cockatiel policies, one breaker per   *)
(*                 endpoint key.                                           *)
(*                                                                         *)
(* Time is a discrete clock `now` (Date.now()).  One action is one         *)
(* macrotask of the JavaScript event loop: the synchronous part of a       *)
(* handler together with the promise continuations it triggers, up to the  *)
(* next await of a network response or of a timer.                         *)
(***************************************************************************)
EXTENDS Integers, FiniteSets, Sequences, TLC

----------------------------------------------------------------------------
(* Bounds of the model *)

\* the clock runs from 0 to MaxTime
MaxTime == 4
\* circuitBreaker.failureThreshold is drawn from 1..MaxThreshold
MaxThreshold == 2
\* retry.maxAttempts is drawn from 1..MaxAttempts
MaxAttempts == 2

\* logical calls that may be in flight at once
Calls == {"c1", "c2"}
\* hosts of the target services (new URL(url).host)
Domains == {"localhost:8081", "localhost:8082"}
\* HTTP statuses the upstream may answer with
Statuses == {200, 204, 404, 500}

Min(a, b) == IF a < b THEN a ELSE b

----------------------------------------------------------------------------
(* Configuration: config/api.ts *)

\* defaultApiConfig, the fallback for a host absent from API_DOMAINS
defaultApiConfig ==
    [timeout |-> 5000,
     retry |-> [maxAttempts |-> 3, initialDelay |-> 1000, maxDelay |-> 5000],
     circuitBreaker |-> [failureThreshold |-> 5, resetTimeout |-> 30000]]

\* The records loadApiConfig can build for one host: every field is
\* Number(process.env[...]) || default, any number the environment gives.
ApiConfigs ==
    [timeout : {3},
     retry : [maxAttempts : 1..MaxAttempts, initialDelay : {1}, maxDelay : {1}],
     circuitBreaker : [failureThreshold : 1..MaxThreshold, resetTimeout : {1}]]

\* Number(process.env[...]) || fallback (config/api.ts 30-38).  env is the
\* number the variable reads as; 0 stands also for a variable that is unset
\* or not a number (NaN), for which || gives the fallback as well.
numberOr(env, fallback) == IF env = 0 THEN fallback ELSE env

\* what the environment gives for one host: a negative, a zero and a
\* positive maxAttempts
Envs ==
    [timeout : {3}, maxAttempts : {-1, 0, 2}, initialDelay : {1}, maxDelay : {1},
     failureThreshold : 1..MaxThreshold, resetTimeout : {1}]

\* loadApiConfig 29-41: the record built for one host
loadApiConfig(env) ==
    [timeout |-> numberOr(env.timeout, defaultApiConfig.timeout),
     retry |-> [maxAttempts |-> numberOr(env.maxAttempts, defaultApiConfig.retry.maxAttempts),
                initialDelay |-> numberOr(env.initialDelay, defaultApiConfig.retry.initialDelay),
                maxDelay |-> numberOr(env.maxDelay, defaultApiConfig.retry.maxDelay)],
     circuitBreaker |->
       [failureThreshold |-> numberOr(env.failureThreshold,
                                      defaultApiConfig.circuitBreaker.failureThreshold),
        resetTimeout |-> numberOr(env.resetTimeout,
                                  defaultApiConfig.circuitBreaker.resetTimeout)]]

VARIABLES
    now,              \* Date.now()
    hosts,            \* the hosts the callers' URLs name
    apiConfig,        \* config/api.ts: the singleton DomainConfig
    circuitBreakers,  \* client.ts 529: Map<host, CircuitBreaker>
    calls,            \* the logical calls (fetchApi invocations)
    openedAt,         \* history: when each breaker went from closed to open
    policies,         \* client.ts 48: Map<host, {retry, circuitBreaker}>
    policiesByKey,    \* client.ts 317: Map<`${domain}-${timeoutMs}`, policy>
    instances,        \* number of policy objects constructed so far
    endpointBreakers, \* resilience.ts 139: Map<EndpointKey, breaker policy>
    reqs,             \* the bffApiClient invocations
    callStreak,       \* history: consecutive failed calls per service
    utilCall,         \* bffApiUtils: the invocation of retry
    hostBreakers,     \* client.ts 48: the breaker policy of each cached host
    fetches,          \* client.ts 131: the fetchApi invocations over cockatiel
    resolved,         \* endpoints.ts 161-198: the last read of the registry
    act,              \* userActions.ts: the server action invoked by a form
    mw                \* middleware.ts: the request the middleware handles

varsClient == <<now, hosts, apiConfig, circuitBreakers, calls, openedAt>>
varsPolicy == <<policies, policiesByKey, instances>>
varsEndpoint == <<endpointBreakers, reqs, callStreak>>
varsUtil == <<utilCall>>
varsHost == <<hostBreakers, fetches>>
varsRegistry == <<resolved>>
varsApp == <<act, mw>>
vars == <<varsClient, varsPolicy, varsEndpoint, varsUtil, varsHost, varsRegistry, varsApp>>

----------------------------------------------------------------------------
(* api/client.ts 427-634: CircuitBreaker, withRetry, fetchApi *)

\* getDomainConfig: config[domain] || defaultApiConfig
getDomainConfig(cfgs, domain) ==
    IF domain \in DOMAIN cfgs THEN cfgs[domain] ELSE defaultApiConfig

\* a CircuitBreaker as constructed: failures = 0, lastFailureTime = 0, isOpen = false
CircuitBreakerNew == [failures |-> 0, lastFailureTime |-> 0, isOpen |-> FALSE]

\* getCircuitBreaker: the map after the lookup, with the breaker created if absent
getCircuitBreaker(cbs, domain) ==
    IF domain \in DOMAIN cbs THEN cbs ELSE cbs @@ (domain :> CircuitBreakerNew)

\* mutant: the comparison of line 503 with >= for >
resetElapsedAtTimeout(b, cfg, t) ==
    t - b.lastFailureTime >= cfg.circuitBreaker.resetTimeout

\* line 503: now - this.lastFailureTime > resetTimeout
resetElapsed(b, cfg, t) == t - b.lastFailureTime > cfg.circuitBreaker.resetTimeout

\* lines 501-509: execute throws 'Circuit breaker is open'
executeRejects(b, cfg, t) == b.isOpen /\ ~resetElapsed(b, cfg, t)

\* lines 501-505: the breaker once a call has passed the open check
executeEnter(b, cfg, t) ==
    IF b.isOpen /\ resetElapsed(b, cfg, t)
    THEN [b EXCEPT !.isOpen = FALSE, !.failures = 0]
    ELSE b

\* mutant: a success leaves the failure count as it is
executeSuccessKeepsCount(b) == b

\* lines 512-514: fn() resolved
executeSuccess(b) == [b EXCEPT !.failures = 0]

\* mutant: the threshold is compared with the count before the increment
executeFailureCheckFirst(b, cfg, t) ==
    [failures |-> b.failures + 1,
     lastFailureTime |-> t,
     isOpen |-> IF b.failures >= cfg.circuitBreaker.failureThreshold THEN TRUE ELSE b.isOpen]

\* mutant: the breaker opens only above the threshold
executeFailureAboveThreshold(b, cfg, t) ==
    [failures |-> b.failures + 1,
     lastFailureTime |-> t,
     isOpen |-> IF b.failures + 1 > cfg.circuitBreaker.failureThreshold
                THEN TRUE ELSE b.isOpen]

\* lines 515-523: fn() rejected
executeFailure(b, cfg, t) ==
    LET f == b.failures + 1 IN
    [failures |-> f,
     lastFailureTime |-> t,
     isOpen |-> IF f >= cfg.circuitBreaker.failureThreshold THEN TRUE ELSE b.isOpen]

\* history: the time of the closed -> open transition, -1 while closed
openedAfter(oa, before, after, t) ==
    IF ~after.isOpen THEN -1
    ELSE IF ~before.isOpen THEN t ELSE oa

CallIdle ==
    [pc |-> "idle", domain |-> "", attempt |-> 0, delay |-> 0, wakeAt |-> 0,
     deadline |-> 0, aborted |-> FALSE, netCalls |-> 0, lastAttempt |-> "none",
     trial |-> FALSE, lastError |-> "none", result |-> "none", status |-> 0]

\* fetchApi settles: the finally block clears the abort timer
Settle(cr, res, st) ==
    [cr EXCEPT !.pc = "done", !.result = res, !.status = st, !.delay = 0,
               !.wakeAt = 0, !.deadline = 0, !.aborted = FALSE, !.trial = FALSE]

\* mutant: the catch block keeps the error of the first failed attempt
CatchFirstError(cr, err, cfg, t) ==
    LET lastError == IF cr.lastError = "none" THEN err ELSE cr.lastError IN
    IF cr.attempt = cfg.retry.maxAttempts
    THEN Settle([cr EXCEPT !.lastError = lastError], lastError, 0)
    ELSE [cr EXCEPT !.pc = "backoff", !.lastError = lastError, !.wakeAt = t + cr.delay,
                    !.trial = FALSE]

\* withRetry 456-465: the catch block of the loop, and throw lastError
Catch(cr, err, cfg, t) ==
    IF cr.attempt = cfg.retry.maxAttempts
    THEN Settle([cr EXCEPT !.lastError = err], err, 0)
    ELSE [cr EXCEPT !.pc = "backoff", !.lastError = err, !.wakeAt = t + cr.delay,
                    !.trial = FALSE]

\* mutant: a rejection by the open breaker is recorded as a failure
AttemptRejectionRecorded(cr, b, cfg, t, oa) ==
    IF executeRejects(b, cfg, t)
    THEN [call |-> Catch([cr EXCEPT !.lastAttempt = "rejected"], "circuitOpen", cfg, t),
          cb |-> executeFailure(b, cfg, t), oa |-> oa]
    ELSE LET b1 == executeEnter(b, cfg, t)
             oa1 == IF b.isOpen THEN -1 ELSE oa
         IN IF cr.aborted
            THEN LET b2 == executeFailure(b1, cfg, t) IN
                 [call |-> Catch([cr EXCEPT !.lastAttempt = "aborted",
                                            !.netCalls = @ + 1],
                                 "abortError", cfg, t),
                  cb |-> b2, oa |-> openedAfter(oa1, b1, b2, t)]
            ELSE [call |-> [cr EXCEPT !.pc = "inflight", !.lastAttempt = "network",
                                      !.netCalls = @ + 1, !.trial = b.isOpen],
                  cb |-> b1, oa |-> oa1]

\* withRetry 455 with fetchApi 612-616: one pass of fn(), up to its first await.
\* Gives the call, the breaker and the opening time after it.
Attempt(cr, b, cfg, t, oa) ==
    IF executeRejects(b, cfg, t)
    THEN [call |-> Catch([cr EXCEPT !.lastAttempt = "rejected"], "circuitOpen", cfg, t),
          cb |-> b, oa |-> oa]
    ELSE LET b1 == executeEnter(b, cfg, t)
             oa1 == IF b.isOpen THEN -1 ELSE oa
         IN IF cr.aborted
            \* fetch with an aborted signal rejects without network I/O
            THEN LET b2 == executeFailure(b1, cfg, t) IN
                 [call |-> Catch([cr EXCEPT !.lastAttempt = "aborted",
                                            !.netCalls = @ + 1],
                                 "abortError", cfg, t),
                  cb |-> b2, oa |-> openedAfter(oa1, b1, b2, t)]
            ELSE [call |-> [cr EXCEPT !.pc = "inflight", !.lastAttempt = "network",
                                      !.netCalls = @ + 1, !.trial = b.isOpen],
                  cb |-> b1, oa |-> oa1]

\* mutant: a timer that is due as soon as it is set
timerDueAtOnce(t, at) == TRUE

\* setTimeout at 460 and 608: the callback runs once the clock has reached
\* the time the timer was set for
timerDue(t, at) == t >= at

\* response.ok
ok(status) == status >= 200 /\ status <= 299

\* options.timeout as the caller passes it; 0 is an absent option
TimeoutOpts == {0}

\* fetchApi 601-619, up to the first await
StartCall(c, domain, timeoutOpt) ==
    /\ calls[c].pc \in {"idle", "done"}
    /\ LET cfg == getDomainConfig(apiConfig, domain)
           cbs == getCircuitBreaker(circuitBreakers, domain)
           timeout == IF timeoutOpt # 0 THEN timeoutOpt ELSE cfg.timeout
           cr == [CallIdle EXCEPT !.domain = domain, !.attempt = 1,
                                  !.delay = cfg.retry.initialDelay,
                                  !.deadline = now + timeout]
       IN IF 1 <= cfg.retry.maxAttempts
          THEN LET r == Attempt(cr, cbs[domain], cfg, now, openedAt[domain]) IN
               /\ calls' = [calls EXCEPT ![c] = r.call]
               /\ circuitBreakers' = [cbs EXCEPT ![domain] = r.cb]
               /\ openedAt' = [openedAt EXCEPT ![domain] = r.oa]
          ELSE \* the loop body never runs: throw lastError, which is null
               /\ calls' = [calls EXCEPT ![c] = Settle(cr, "null", 0)]
               /\ circuitBreakers' = cbs
               /\ UNCHANGED openedAt
    /\ UNCHANGED <<now, hosts, apiConfig, varsPolicy, varsEndpoint, varsUtil, varsHost, varsRegistry, varsApp>>

\* fetch resolves with a response: execute 513-514, withRetry 455, fetchApi 621-630
FetchResolve(c, status) ==
    /\ calls[c].pc = "inflight"
    /\ LET d == calls[c].domain
           b == executeSuccess(circuitBreakers[d])
       IN /\ circuitBreakers' = [circuitBreakers EXCEPT ![d] = b]
          /\ openedAt' = [openedAt EXCEPT ![d] = openedAfter(@, circuitBreakers[d], b, now)]
          /\ calls' = [calls EXCEPT ![c] =
                IF ~ok(status) THEN Settle(@, "httpError", status)
                ELSE IF status = 204 THEN Settle(@, "jsonError", status)
                ELSE Settle(@, "ok", status)]
    /\ UNCHANGED <<now, hosts, apiConfig, varsPolicy, varsEndpoint, varsUtil, varsHost, varsRegistry, varsApp>>

\* fetch rejects (network failure): execute 515-523, withRetry 456-461
FetchReject(c) ==
    /\ calls[c].pc = "inflight"
    /\ LET d == calls[c].domain
           cfg == getDomainConfig(apiConfig, d)
           b == executeFailure(circuitBreakers[d], cfg, now)
       IN /\ circuitBreakers' = [circuitBreakers EXCEPT ![d] = b]
          /\ openedAt' = [openedAt EXCEPT ![d] = openedAfter(@, circuitBreakers[d], b, now)]
          /\ calls' = [calls EXCEPT ![c] = Catch(@, "netError", cfg, now)]
    /\ UNCHANGED <<now, hosts, apiConfig, varsPolicy, varsEndpoint, varsUtil, varsHost, varsRegistry, varsApp>>

\* fetchApi 608: the timer set at the start of the call aborts the controller;
\* a fetch in flight rejects with an AbortError
AbortFire(c) ==
    /\ calls[c].pc \in {"inflight", "backoff"}
    /\ ~calls[c].aborted
    /\ timerDue(now, calls[c].deadline)
    /\ LET d == calls[c].domain
           cfg == getDomainConfig(apiConfig, d)
           b == executeFailure(circuitBreakers[d], cfg, now)
           cr == [calls[c] EXCEPT !.aborted = TRUE]
       IN IF calls[c].pc = "inflight"
          THEN /\ circuitBreakers' = [circuitBreakers EXCEPT ![d] = b]
               /\ openedAt' = [openedAt EXCEPT ![d] =
                                 openedAfter(@, circuitBreakers[d], b, now)]
               /\ calls' = [calls EXCEPT ![c] = Catch(cr, "abortError", cfg, now)]
          ELSE /\ calls' = [calls EXCEPT ![c] = cr]
               /\ UNCHANGED <<circuitBreakers, openedAt>>
    /\ UNCHANGED <<now, hosts, apiConfig, varsPolicy, varsEndpoint, varsUtil, varsHost, varsRegistry, varsApp>>

\* withRetry 460-461 and the next pass of the loop
BackoffElapsed(c) ==
    /\ calls[c].pc = "backoff"
    /\ timerDue(now, calls[c].wakeAt)
    /\ LET d == calls[c].domain
           cfg == getDomainConfig(apiConfig, d)
           cr == [calls[c] EXCEPT !.delay = Min(@ * 2, cfg.retry.maxDelay),
                                  !.attempt = @ + 1, !.wakeAt = 0]
           r == Attempt(cr, circuitBreakers[d], cfg, now, openedAt[d])
       IN /\ calls' = [calls EXCEPT ![c] = r.call]
          /\ circuitBreakers' = [circuitBreakers EXCEPT ![d] = r.cb]
          /\ openedAt' = [openedAt EXCEPT ![d] = r.oa]
    /\ UNCHANGED <<now, hosts, apiConfig, varsPolicy, varsEndpoint, varsUtil, varsHost, varsRegistry, varsApp>>

\* the clock advances
Tick ==
    /\ now < MaxTime
    /\ now' = now + 1
    /\ UNCHANGED <<hosts, apiConfig, circuitBreakers, calls, openedAt, varsPolicy, varsEndpoint, varsUtil, varsHost, varsRegistry, varsApp>>

----------------------------------------------------------------------------
(* api/client.ts 48-94 and 316-355: the getPolicy caches *)

\* options.timeout as the callers of these variants pass it; 0 is an absent option
PolicyTimeoutOpts == {0, 1000, 2000}

\* fetchApi 147 and 404: options.timeout || domainConfig.timeout
timeoutFor(domain, timeoutOpt) ==
    IF timeoutOpt # 0 THEN timeoutOpt ELSE getDomainConfig(apiConfig, domain).timeout

\* getPolicy 62-94, called from fetchApi 145-150: the cache is keyed by the
\* host alone; the timeout policy is built per call and not cached
getPolicy(domain, timeoutOpt) ==
    /\ IF domain \in DOMAIN policies
       THEN UNCHANGED <<policies, instances>>
       ELSE /\ instances' = instances + 1
            /\ policies' = policies @@
                 (domain :> [retry |-> instances + 1, circuitBreaker |-> instances + 1])
    /\ UNCHANGED <<policiesByKey, varsClient, varsEndpoint, varsUtil, varsHost, varsRegistry, varsApp>>

\* getPolicy 323-355, called from fetchApi 402-407: the cache is keyed by
\* `${domain}-${timeoutMs}`; each entry holds its own breaker
getPolicyByKey(domain, timeoutOpt) ==
    LET key == <<domain, timeoutFor(domain, timeoutOpt)>> IN
    /\ IF key \in DOMAIN policiesByKey
       THEN UNCHANGED <<policiesByKey, instances>>
       ELSE /\ instances' = instances + 1
            /\ policiesByKey' = policiesByKey @@
                 (key :> [retry |-> instances + 1, circuitBreaker |-> instances + 1])
    /\ UNCHANGED <<policies, varsClient, varsEndpoint, varsUtil, varsHost, varsRegistry, varsApp>>

----------------------------------------------------------------------------
(* endpoints.ts: the endpoint registry *)

\* endpointConfigs 45-134
endpointConfigs ==
    [user |->
       [domain |-> "userApi", defaultTimeout |-> 5000,
        circuitBreaker |-> [threshold |-> 5, duration |-> 30000, minimumThroughput |-> 3],
        retry |-> [maxAttempts |-> 3, backoff |-> [initialDelay |-> 1000, maxDelay |-> 5000]],
        endpoints |->
          [getUser |-> [path |-> "/users/:id"],
           createUser |->
             [path |-> "/users", timeout |-> 10000,
              retry |-> [maxAttempts |-> 2,
                         backoff |-> [initialDelay |-> 2000, maxDelay |-> 8000]]]]],
     exam |->
       [domain |-> "examApi", defaultTimeout |-> 8000,
        circuitBreaker |-> [threshold |-> 3, duration |-> 60000],
        retry |-> [maxAttempts |-> 2, backoff |-> [initialDelay |-> 1500, maxDelay |-> 4000]],
        endpoints |->
          [getExams |-> [path |-> "/exams"],
           getExamById |-> [path |-> "/exams/:id", timeout |-> 5000],
           submitExam |->
             [path |-> "/exams/:id/submit", timeout |-> 15000,
              retry |-> [maxAttempts |-> 5,
                         backoff |-> [initialDelay |-> 1000, maxDelay |-> 10000]]]]],
     admin |->
       [domain |-> "adminApi", defaultTimeout |-> 15000,
        circuitBreaker |-> [threshold |-> 2, duration |-> 120000, minimumThroughput |-> 2],
        retry |-> [maxAttempts |-> 3, backoff |-> [initialDelay |-> 2000, maxDelay |-> 8000]],
        endpoints |-> [getAdminStats |-> [path |-> "/admin/stats"]]]]

EndpointKeys == UNION {DOMAIN endpointConfigs[s].endpoints : s \in DOMAIN endpointConfigs}

\* the service group that declares an endpoint key
serviceOf(key) == CHOOSE s \in DOMAIN endpointConfigs : key \in DOMAIN endpointConfigs[s].endpoints

\* mutant: the retry settings are always those of the service
endpointsServiceRetry ==
    [key \in EndpointKeys |->
       LET domainConfig == endpointConfigs[serviceOf(key)]
           endpoint == domainConfig.endpoints[key]
       IN [domain |-> domainConfig.domain,
           path |-> endpoint.path,
           timeout |-> IF "timeout" \in DOMAIN endpoint THEN endpoint.timeout
                       ELSE domainConfig.defaultTimeout,
           circuitBreaker |-> domainConfig.circuitBreaker,
           retry |-> domainConfig.retry]]

\* endpoints 139-153: the flattened registry
endpoints ==
    [key \in EndpointKeys |->
       LET domainConfig == endpointConfigs[serviceOf(key)]
           endpoint == domainConfig.endpoints[key]
       IN [domain |-> domainConfig.domain,
           path |-> endpoint.path,
           timeout |-> IF "timeout" \in DOMAIN endpoint THEN endpoint.timeout
                       ELSE domainConfig.defaultTimeout,
           circuitBreaker |-> domainConfig.circuitBreaker,
           retry |-> IF "retry" \in DOMAIN endpoint THEN endpoint.retry
                     ELSE domainConfig.retry]]

getEndpointTimeout(key) == endpoints[key].timeout
\* mutant: every breaker opens at the first failure
getCircuitBreakerConfigThresholdOne(key) ==
    [endpoints[key].circuitBreaker EXCEPT !.threshold = 1]

getCircuitBreakerConfig(key) == endpoints[key].circuitBreaker
getRetryConfig(key) == endpoints[key].retry

----------------------------------------------------------------------------
(* config/resilience.ts 126-220: bffApiClient over cockatiel policies.      *)
(*                                                                          *)
(* cockatiel is a library; its policies are modelled as the library         *)
(* documents them.  retry(handleAll, {maxAttempts}) re-runs the operation   *)
(* after every error, up to maxAttempts retries after the first try.        *)
(* circuitBreaker(handleAll, {halfOpenAfter, breaker: ConsecutiveBreaker})  *)
(* opens after `threshold` consecutive failures of the operation it wraps,  *)
(* rejects with BrokenCircuitError while open, and once halfOpenAfter has   *)
(* passed runs the next operation as the half-open test, other callers      *)
(* waiting for its verdict.  timeout(ms, Aggressive) rejects its caller     *)
(* when the time is up and leaves the wrapped operation running.            *)
(* The timers of this variant are not measured against the clock: a timer   *)
(* that is running may fire at any later step.                              *)

\* the endpoint keys the callers of the model use
KeysInUse == {"getExams", "getExamById"}
Reqs == {"r1", "r2"}

\* circuitBreaker(handleAll, ...) as constructed at 158-161
BreakerPolicyNew == [state |-> "closed", count |-> 0, elapsed |-> FALSE, test |-> "none"]

ReqIdle ==
    [pc |-> "idle", key |-> "", method |-> "", retries |-> 0, netCalls |-> 0,
     outcome |-> "none", lastStatus |-> 0]

\* the streak of a service is counted up to the threshold of the service
StreakCap(service) == endpointConfigs[service].circuitBreaker.threshold

InitEndpoint ==
    /\ endpointBreakers = <<>>
    /\ reqs = [r \in Reqs |-> ReqIdle]
    /\ callStreak = [s \in DOMAIN endpointConfigs |-> 0]

\* what the caller of bffApiClient gets, unless the timeout has already
\* rejected the call (206-218)
surface(rq, out) == IF rq.outcome = "none" THEN [rq EXCEPT !.outcome = out] ELSE rq

\* breakerPolicy.execute at 167, entered by request r.  Gives the request and
\* the breaker after the synchronous part.
breakerExecute(r, rq, b) ==
    IF b.state = "closed"
    THEN \* retryPolicy.execute(fn): the first try, fetch at 197
         [req |-> [rq EXCEPT !.pc = "inflight", !.retries = 0, !.netCalls = @ + 1], cb |-> b]
    ELSE IF b.state = "halfOpen"
    THEN [req |-> [rq EXCEPT !.pc = "waitTest"], cb |-> b]
    ELSE IF b.elapsed
    THEN \* the half-open test
         [req |-> [rq EXCEPT !.pc = "inflight", !.retries = 0, !.netCalls = @ + 1],
          cb |-> [b EXCEPT !.state = "halfOpen", !.test = r]]
    ELSE \* BrokenCircuitError, caught at 215-216
         [req |-> surface([rq EXCEPT !.pc = "done"], "circuitOpen"), cb |-> b]

\* the breaker after the operation it wraps has succeeded for request r
breakerSuccess(r, b) ==
    IF b.test = r
    THEN [b EXCEPT !.count = 0, !.test = "none",
                   !.state = IF b.state = "halfOpen" THEN "closed" ELSE @]
    ELSE [b EXCEPT !.count = 0]

\* the breaker after the operation it wraps has failed for request r;
\* ConsecutiveBreaker's count is kept up to the threshold, beyond which
\* nothing reads it
breakerFailure(r, b, threshold) ==
    LET n == Min(b.count + 1, threshold)
        tested == IF b.test = r THEN "none" ELSE b.test
    IN IF (b.test = r \/ n >= threshold) /\ b.state # "open"
       THEN [state |-> "open", count |-> n, elapsed |-> FALSE, test |-> tested]
       ELSE [b EXCEPT !.count = n, !.test = tested]

\* bffApiClient 178-197, up to the first await.  For a key that the registry
\* does not hold, endpoints[endpointKey] is undefined and getEndpointTimeout
\* (181, called at 143) throws a TypeError, which rejects the call at 183.
bffApiClient(r, key) ==
    /\ reqs[r].pc \in {"idle", "done"}
    /\ IF key \notin DOMAIN endpoints
       THEN /\ reqs' = [reqs EXCEPT ![r] =
                  [ReqIdle EXCEPT !.key = key, !.pc = "done", !.outcome = "typeError"]]
            /\ UNCHANGED endpointBreakers
       ELSE LET cbs == IF key \in DOMAIN endpointBreakers THEN endpointBreakers
                       ELSE endpointBreakers @@ (key :> BreakerPolicyNew)
                x == breakerExecute(r, [ReqIdle EXCEPT !.key = key], cbs[key])
            IN /\ reqs' = [reqs EXCEPT ![r] = x.req]
               /\ endpointBreakers' = [cbs EXCEPT ![key] = x.cb]
    /\ UNCHANGED <<callStreak, varsClient, varsPolicy, varsUtil, varsHost, varsRegistry, varsApp>>

\* the verbs of the facade (apiClient.ts 17-23: HttpMethods)
Verbs == {"get", "post", "put", "delete", "patch"}

\* mutant: every verb is sent as GET
httpMethodGet(verb) == "GET"

\* the method option each verb passes on (apiClient.ts 50-75)
httpMethod(verb) ==
    CASE verb = "get" -> "GET"
      [] verb = "post" -> "POST"
      [] verb = "put" -> "PUT"
      [] verb = "delete" -> "DELETE"
      [] verb = "patch" -> "PATCH"

\* createApiClient (apiClient.ts 46-79): api[endpointKey].verb(...) returns
\* bffApiClient(endpointKey, params, {...options, method}); the call runs up
\* to its first await as in bffApiClient above, with the method option set
apiVerb(r, key, verb) ==
    /\ reqs[r].pc \in {"idle", "done"}
    /\ key \in DOMAIN endpoints
    /\ LET cbs == IF key \in DOMAIN endpointBreakers THEN endpointBreakers
                  ELSE endpointBreakers @@ (key :> BreakerPolicyNew)
           x == breakerExecute(r, [ReqIdle EXCEPT !.key = key,
                                                  !.method = httpMethod(verb)], cbs[key])
       IN /\ reqs' = [reqs EXCEPT ![r] = x.req]
          /\ endpointBreakers' = [cbs EXCEPT ![key] = x.cb]
    /\ UNCHANGED <<callStreak, varsClient, varsPolicy, varsUtil, varsHost, varsRegistry, varsApp>>

\* fetch at 197 resolves with a 2xx response: 206-213
fetchOk(r, status) ==
    /\ reqs[r].pc = "inflight"
    /\ ok(status)
    /\ LET key == reqs[r].key IN
       /\ endpointBreakers' = [endpointBreakers EXCEPT ![key] = breakerSuccess(r, @)]
       /\ reqs' = [reqs EXCEPT ![r] =
             surface([@ EXCEPT !.pc = "done", !.lastStatus = status],
                     IF status = 204 THEN "empty" ELSE "ok")]
       /\ callStreak' = [callStreak EXCEPT ![serviceOf(key)] = 0]
    /\ UNCHANGED <<varsClient, varsPolicy, varsUtil, varsHost, varsRegistry, varsApp>>

\* fetch at 197 rejects (status 0) or resolves with a non-2xx response, which
\* 198-205 turns into a thrown Error; retry(handleAll) handles either
fetchFails(r, status) ==
    /\ reqs[r].pc = "inflight"
    /\ ~ok(status)
    /\ LET key == reqs[r].key
           rq == [reqs[r] EXCEPT !.lastStatus = status]
       IN IF rq.retries < getRetryConfig(key).maxAttempts
          THEN /\ reqs' = [reqs EXCEPT ![r] = [rq EXCEPT !.pc = "backoff"]]
               /\ UNCHANGED <<endpointBreakers, callStreak>>
          ELSE /\ reqs' = [reqs EXCEPT ![r] =
                     surface([rq EXCEPT !.pc = "done"],
                             IF status = 0 THEN "netError" ELSE "httpError")]
               /\ endpointBreakers' = [endpointBreakers EXCEPT ![key] =
                     breakerFailure(r, @, getCircuitBreakerConfig(key).threshold)]
               /\ callStreak' = [callStreak EXCEPT ![serviceOf(key)] =
                                   Min(@ + 1, StreakCap(serviceOf(key)))]
    /\ UNCHANGED <<varsClient, varsPolicy, varsUtil, varsHost, varsRegistry, varsApp>>

\* the backoff delay of the retry policy has passed: the next try
retryElapsed(r) ==
    /\ reqs[r].pc = "backoff"
    /\ reqs' = [reqs EXCEPT ![r] = [@ EXCEPT !.pc = "inflight", !.retries = @ + 1,
                                             !.netCalls = @ + 1, !.lastStatus = 0]]
    /\ UNCHANGED <<endpointBreakers, callStreak, varsClient, varsPolicy, varsUtil, varsHost, varsRegistry, varsApp>>

\* the half-open test a request waits for has ended: execute runs again
testEnded(r) ==
    /\ reqs[r].pc = "waitTest"
    /\ endpointBreakers[reqs[r].key].test = "none"
    /\ LET key == reqs[r].key
           x == breakerExecute(r, reqs[r], endpointBreakers[key])
       IN /\ reqs' = [reqs EXCEPT ![r] = x.req]
          /\ endpointBreakers' = [endpointBreakers EXCEPT ![key] = x.cb]
    /\ UNCHANGED <<callStreak, varsClient, varsPolicy, varsUtil, varsHost, varsRegistry, varsApp>>

\* timeout(timeoutMs, Aggressive) at 144 and 166 rejects the caller; what it
\* wraps keeps running
timeoutFires(r) ==
    /\ reqs[r].pc \in {"inflight", "backoff", "waitTest"}
    /\ reqs[r].outcome = "none"
    /\ reqs' = [reqs EXCEPT ![r] = [@ EXCEPT !.outcome = "timeout"]]
    /\ UNCHANGED <<endpointBreakers, callStreak, varsClient, varsPolicy, varsUtil, varsHost, varsRegistry, varsApp>>

\* halfOpenAfter (config.duration, 159) has passed since the breaker opened
halfOpenAfterElapses(key) ==
    /\ key \in DOMAIN endpointBreakers
    /\ endpointBreakers[key].state = "open"
    /\ ~endpointBreakers[key].elapsed
    /\ endpointBreakers' = [endpointBreakers EXCEPT ![key] = [@ EXCEPT !.elapsed = TRUE]]
    /\ UNCHANGED <<reqs, callStreak, varsClient, varsPolicy, varsUtil, varsHost, varsRegistry, varsApp>>

----------------------------------------------------------------------------
(* endpoints.ts 4-8 and 161-198: the functions that read the registry.  A   *)
(* path is the sequence of its characters.  String.prototype.replace with  *)
(* a string pattern rewrites the first occurrence of the pattern only; the *)
(* values of the model hold no "$", which replace would interpret.         *)

\* domains 4-8, with the environment variables unset
domains ==
    [userApi |-> "http://localhost:8081",
     examApi |-> "http://localhost:8082",
     adminApi |-> "http://localhost:8083"]

MaxParams == 2

\* registry entries (EndpointInternalConfig 33-39: domain and path): those of
\* getUser (63), createUser (66) and submitExam (101), and two more that
\* endpointConfigs may declare: one that names :id twice and one whose token
\* :idx begins with :id
RegistryEntries ==
    {[domain |-> "userApi", path |-> <<"/", "u", "s", "e", "r", "s", "/", ":", "i", "d">>],
     [domain |-> "userApi", path |-> <<"/", "u", "s", "e", "r", "s">>],
     [domain |-> "examApi",
      path |-> <<"/", "e", "x", "a", "m", "s", "/", ":", "i", "d", "/", "s", "u", "b", "m", "i", "t">>],
     [domain |-> "examApi",
      path |-> <<"/", "e", "x", "a", "m", "s", "/", ":", "i", "d", "/", "n", "e", "x", "t", "/", ":", "i", "d">>],
     [domain |-> "userApi", path |-> <<"/", "u", "s", "e", "r", "s", "/", ":", "i", "d", "x">>]}

\* params: Record<string, string> (163), as the sequence of its entries in
\* insertion order, which is the order of Object.entries (170)
ParamKeys == {<<"i", "d">>, <<"x">>}
ParamValues == {<<"4", "2">>, <<"7">>, <<":", "x">>}
ParamEntries == [key : ParamKeys, value : ParamValues]
Params ==
    {ps \in UNION {[1..n -> ParamEntries] : n \in 0..MaxParams} :
        \A i, j \in 1..Len(ps) : ps[i].key = ps[j].key => i = j}

\* String.prototype.indexOf, 1-based; 0 when the pattern does not occur
indexOf(str, pattern) ==
    LET hits == {i \in 1..(Len(str) - Len(pattern) + 1) :
                    SubSeq(str, i, i + Len(pattern) - 1) = pattern}
    IN IF hits = {} THEN 0 ELSE CHOOSE i \in hits : \A j \in hits : i <= j

\* String.prototype.replace(pattern: string, value) at 171
replace(str, pattern, value) ==
    LET i == indexOf(str, pattern)
    IN IF i = 0 THEN str
       ELSE SubSeq(str, 1, i - 1) \o value \o SubSeq(str, i + Len(pattern), Len(str))

\* the forEach of 170-172
RECURSIVE resolvePath(_, _)
resolvePath(path, params) ==
    IF params = <<>> THEN path
    ELSE resolvePath(replace(path, <<":">> \o Head(params).key, Head(params).value),
                     Tail(params))

\* getEndpointUrl 161-174, given the entry read at 165
getEndpointUrl(endpoint, params) ==
    [origin |-> domains[endpoint.domain], path |-> resolvePath(endpoint.path, params)]

ResolvedIdle ==
    [pc |-> "idle", endpoint |-> [domain |-> "", path |-> <<>>], params |-> <<>>,
     url |-> [origin |-> "", path |-> <<>>],
     key |-> "", timeout |-> 0, retry |-> <<>>, circuitBreaker |-> <<>>]

InitRegistry == resolved = ResolvedIdle

\* a caller builds the URL of an endpoint (resilience.ts 184)
buildUrl(endpoint, params) ==
    /\ resolved' = [ResolvedIdle EXCEPT !.pc = "url", !.endpoint = endpoint,
                                        !.params = params,
                                        !.url = getEndpointUrl(endpoint, params)]
    /\ UNCHANGED <<varsClient, varsPolicy, varsEndpoint, varsUtil, varsHost, varsApp>>

\* createPolicies reads the settings of an endpoint (resilience.ts 143, 146, 157)
readSettings(key) ==
    /\ resolved' = [ResolvedIdle EXCEPT !.pc = "settings", !.key = key,
                                        !.timeout = getEndpointTimeout(key),
                                        !.retry = getRetryConfig(key),
                                        !.circuitBreaker = getCircuitBreakerConfig(key)]
    /\ UNCHANGED <<varsClient, varsPolicy, varsEndpoint, varsUtil, varsHost, varsApp>>

----------------------------------------------------------------------------
(* bffApiUtils (src/unnamed/part_006 29-97) and userClient.ts: retry *)

\* RETRY_CONFIG 32-37
RETRY_CONFIG ==
    [maxAttempts |-> 3, initialDelay |-> 1000, maxDelay |-> 5000, backoffFactor |-> 2]

\* Errors are written as numbers: an HTTP status stands for the Error that
\* userClient.ts 45-49 throws with JSON.stringify({status, ...}) as message;
\* the two below are rejections of fetch itself.
\* TypeError with message 'Failed to fetch' (line 49)
FailedToFetch == 1
\* any other rejection of fetch, such as the AbortError of a caller's signal
OtherRejection == 2

\* isRetryableError 47-65
isRetryableError(error) ==
    IF error = FailedToFetch THEN TRUE
    ELSE IF error = OtherRejection THEN FALSE   \* JSON.parse throws: 59-61
    ELSE error >= 500 \/ error \in {408, 429}

\* what the upstream may do to one fetch of this client
UtilErrors == {FailedToFetch, OtherRejection, 404, 408, 429, 500}

UtilIdle ==
    [pc |-> "idle", attempt |-> 0, delay |-> 0, waits |-> <<>>, log |-> <<>>,
     outcome |-> "none", thrown |-> 0]

InitUtil == utilCall = UtilIdle

\* userClient.ts bffApiClient 24-40 with retry 72-78: up to the first await
utilBffApiClient ==
    /\ utilCall.pc \in {"idle", "done"}
    /\ utilCall' = [UtilIdle EXCEPT !.pc = "inflight", !.delay = RETRY_CONFIG.initialDelay]
    /\ UNCHANGED <<varsClient, varsPolicy, varsEndpoint, varsHost, varsRegistry, varsApp>>

\* fetch resolves with a 2xx response: retry 78, userClient.ts 52-60
utilFetchOk(status) ==
    /\ utilCall.pc = "inflight"
    /\ ok(status)
    /\ utilCall' = [utilCall EXCEPT !.pc = "done", !.log = Append(@, status),
                                    !.outcome = IF status = 204 THEN "empty" ELSE "ok"]
    /\ UNCHANGED <<varsClient, varsPolicy, varsEndpoint, varsHost, varsRegistry, varsApp>>

\* the operation throws: retry 79-94
utilFetchFails(error) ==
    /\ utilCall.pc = "inflight"
    /\ LET attempt == utilCall.attempt + 1
           delay == Min(utilCall.delay * RETRY_CONFIG.backoffFactor, RETRY_CONFIG.maxDelay)
       IN utilCall' =
            IF attempt >= RETRY_CONFIG.maxAttempts \/ ~isRetryableError(error)
            THEN [utilCall EXCEPT !.pc = "done", !.attempt = attempt,
                                  !.log = Append(@, error),
                                  !.outcome = "error", !.thrown = error]
            ELSE [utilCall EXCEPT !.pc = "waiting", !.attempt = attempt,
                                  !.log = Append(@, error),
                                  !.delay = delay, !.waits = Append(@, delay)]
    /\ UNCHANGED <<varsClient, varsPolicy, varsEndpoint, varsHost, varsRegistry, varsApp>>

\* wait(delay) at 94 is over: the next pass of the loop
utilWaitElapsed ==
    /\ utilCall.pc = "waiting"
    /\ utilCall' = [utilCall EXCEPT !.pc = "inflight"]
    /\ UNCHANGED <<varsClient, varsPolicy, varsEndpoint, varsHost, varsRegistry, varsApp>>

----------------------------------------------------------------------------
(* api/client.ts 1-172: fetchApi over the cockatiel policies of getPolicy,  *)
(* retryPolicy.execute(() => timeoutPolicy.execute(() =>                    *)
(* cbPolicy.execute(fn))) with the breaker of the host (84-93).             *)
(* timeout(ms, Cooperative) only aborts the signal it hands to the function *)
(* it wraps and returns whatever that function settles with.  Timers are    *)
(* events here as in the endpoint client.                                   *)

Fetches == {"f1", "f2"}

FetchIdle ==
    [pc |-> "idle", domain |-> "", retries |-> 0, netCalls |-> 0, outcome |-> "none",
     timedOut |-> FALSE]

InitHost ==
    /\ hostBreakers = <<>>
    /\ fetches = [f \in Fetches |-> FetchIdle]

\* retry(handleAll, {maxAttempts}) at 64-69 has caught an error of the attempt
hostCatch(fr, err, cfg) ==
    IF fr.retries < cfg.retry.maxAttempts
    THEN [fr EXCEPT !.pc = "backoff", !.timedOut = FALSE]
    ELSE [fr EXCEPT !.pc = "done", !.outcome = err, !.timedOut = FALSE]

\* one pass of the function given to retryPolicy.execute (86-91), up to its
\* first await: the timeout policy starts its timer, the breaker of the host
\* is entered and fetch (157) is called without a signal.  Gives the fetchApi
\* invocation and the breaker after it.
hostAttempt(f, fr, b, cfg) ==
    IF b.state = "closed"
    THEN [fetch |-> [fr EXCEPT !.pc = "inflight", !.netCalls = @ + 1, !.timedOut = FALSE],
          cb |-> b]
    ELSE IF b.state = "halfOpen"
    THEN [fetch |-> [fr EXCEPT !.pc = "waitTest", !.timedOut = FALSE], cb |-> b]
    ELSE IF b.elapsed
    THEN [fetch |-> [fr EXCEPT !.pc = "inflight", !.netCalls = @ + 1, !.timedOut = FALSE],
          cb |-> [b EXCEPT !.state = "halfOpen", !.test = f]]
    ELSE \* BrokenCircuitError, an error like any other to retry(handleAll)
         [fetch |-> hostCatch(fr, "circuitOpen", cfg), cb |-> b]

\* mutant: one cache entry for every host
policyKeyShared(domain) == "localhost:8081"

\* getPolicy 63 and 76: the key of the policies of a host in the cache
policyKey(domain) == domain

\* fetchApi 143-158, up to the first await; getPolicy 62-76 creates the
\* policies of a host on its first call
hostFetchApi(f, domain) ==
    /\ fetches[f].pc \in {"idle", "done"}
    /\ LET cfg == getDomainConfig(apiConfig, domain)
           key == policyKey(domain)
           cbs == IF key \in DOMAIN hostBreakers THEN hostBreakers
                  ELSE hostBreakers @@ (key :> BreakerPolicyNew)
           x == hostAttempt(f, [FetchIdle EXCEPT !.domain = domain], cbs[key], cfg)
       IN /\ fetches' = [fetches EXCEPT ![f] = x.fetch]
          /\ hostBreakers' = [cbs EXCEPT ![key] = x.cb]
    /\ UNCHANGED <<varsClient, varsPolicy, varsEndpoint, varsUtil, varsRegistry, varsApp>>

\* fetch at 157 resolves with a response, of whatever status: 160-171
hostFetchResolve(f, status) ==
    /\ fetches[f].pc = "inflight"
    /\ LET d == policyKey(fetches[f].domain) IN
       /\ hostBreakers' = [hostBreakers EXCEPT ![d] = breakerSuccess(f, @)]
       /\ fetches' = [fetches EXCEPT ![f] =
             [@ EXCEPT !.pc = "done", !.timedOut = FALSE,
                       !.outcome = IF ~ok(status) THEN "httpError"
                                   ELSE IF status = 204 THEN "jsonError" ELSE "ok"]]
    /\ UNCHANGED <<varsClient, varsPolicy, varsEndpoint, varsUtil, varsRegistry, varsApp>>

\* fetch at 157 rejects
hostFetchReject(f) ==
    /\ fetches[f].pc = "inflight"
    /\ LET d == policyKey(fetches[f].domain)
           cfg == getDomainConfig(apiConfig, fetches[f].domain)
       IN /\ hostBreakers' = [hostBreakers EXCEPT ![d] =
                breakerFailure(f, @, cfg.circuitBreaker.failureThreshold)]
          /\ fetches' = [fetches EXCEPT ![f] = hostCatch(@, "netError", cfg)]
    /\ UNCHANGED <<varsClient, varsPolicy, varsEndpoint, varsUtil, varsRegistry, varsApp>>

\* the backoff delay of the retry policy has passed: the next attempt
hostRetryElapsed(f) ==
    /\ fetches[f].pc = "backoff"
    /\ LET d == policyKey(fetches[f].domain)
           cfg == getDomainConfig(apiConfig, fetches[f].domain)
           x == hostAttempt(f, [fetches[f] EXCEPT !.retries = @ + 1], hostBreakers[d], cfg)
       IN /\ fetches' = [fetches EXCEPT ![f] = x.fetch]
          /\ hostBreakers' = [hostBreakers EXCEPT ![d] = x.cb]
    /\ UNCHANGED <<varsClient, varsPolicy, varsEndpoint, varsUtil, varsRegistry, varsApp>>

\* the half-open test an attempt waits for has ended: the breaker is entered again
hostTestEnded(f) ==
    /\ fetches[f].pc = "waitTest"
    /\ hostBreakers[policyKey(fetches[f].domain)].test = "none"
    /\ LET d == policyKey(fetches[f].domain)
           cfg == getDomainConfig(apiConfig, fetches[f].domain)
           x == hostAttempt(f, fetches[f], hostBreakers[d], cfg)
       IN /\ fetches' = [fetches EXCEPT ![f] =
                [x.fetch EXCEPT !.timedOut =
                    IF x.fetch.pc \in {"inflight", "waitTest"}
                    THEN fetches[f].timedOut ELSE FALSE]]
          /\ hostBreakers' = [hostBreakers EXCEPT ![d] = x.cb]
    /\ UNCHANGED <<varsClient, varsPolicy, varsEndpoint, varsUtil, varsRegistry, varsApp>>

\* the timer of timeout(timeoutMs, Cooperative) at 78 fires during an attempt:
\* the signal of the policy is aborted, and nothing listens to it
hostTimeoutFires(f) ==
    /\ fetches[f].pc \in {"inflight", "waitTest"}
    /\ ~fetches[f].timedOut
    /\ fetches' = [fetches EXCEPT ![f] = [@ EXCEPT !.timedOut = TRUE]]
    /\ UNCHANGED <<hostBreakers, varsClient, varsPolicy, varsEndpoint, varsUtil, varsRegistry, varsApp>>

\* halfOpenAfter (resetTimeout, 72) has passed since the breaker opened
hostHalfOpenAfterElapses(domain) ==
    /\ domain \in DOMAIN hostBreakers
    /\ hostBreakers[domain].state = "open"
    /\ ~hostBreakers[domain].elapsed
    /\ hostBreakers' = [hostBreakers EXCEPT ![domain] = [@ EXCEPT !.elapsed = TRUE]]
    /\ UNCHANGED <<fetches, varsClient, varsPolicy, varsEndpoint, varsUtil, varsRegistry, varsApp>>

----------------------------------------------------------------------------
(* server-actions/userActions.ts (login 14-53, register 55-97) and its     *)
(* later version src/unnamed/part_005 (login 16-76, register 78-128).  A   *)
(* form value is modelled by what the schema reads of it: the length of a  *)
(* string and whether it matches the pattern of its field.  redirect()     *)
(* throws the NEXT_REDIRECT error.                                         *)

Variants == {"userActions", "part_005"}

\* the field the action reads the identifier of the user into (18-21, 20-23)
idField(variant) == IF variant = "userActions" THEN "loginId" ELSE "userId"

LoginForms == [id : {2, 3, 50, 51}, password : {7, 8}]

RegisterForms ==
    [userId : [len : {2, 3, 21}, word : BOOLEAN], email : BOOLEAN,
     password : [len : {7, 8}, mixed : BOOLEAN], confirmed : BOOLEAN]

\* the issues of a field, in the order of its checks
idIssues(len) ==
    (IF len < 3 THEN <<"min3">> ELSE <<>>) \o (IF len > 50 THEN <<"max50">> ELSE <<>>)

userIdIssues(u) ==
    (IF u.len < 3 THEN <<"min3">> ELSE <<>>)
      \o (IF u.len > 20 THEN <<"max20">> ELSE <<>>)
      \o (IF ~u.word THEN <<"pattern">> ELSE <<>>)

passwordIssues(len) == IF len < 8 THEN <<"min8">> ELSE <<>>

newPasswordIssues(pw) ==
    (IF pw.len < 8 THEN <<"min8">> ELSE <<>>) \o (IF ~pw.mixed THEN <<"mixed">> ELSE <<>>)

\* the reduce of 25-29: the message kept for a field is that of its last issue
errorsOf(issues) ==
    [field \in {f \in DOMAIN issues : issues[f] # <<>>} |->
        issues[field][Len(issues[field])]]

\* mutant: the password of the login form is not validated
loginErrorsIdOnly(variant, form) ==
    errorsOf((idField(variant) :> idIssues(form.id)) @@ ("password" :> <<>>))

\* loginSchema.safeParse (validation/auth.ts 6-12) and the reduce of 25-29
loginErrors(variant, form) ==
    errorsOf((idField(variant) :> idIssues(form.id))
               @@ ("password" :> passwordIssues(form.password)))

\* registerSchema.safeParse (validation/registration.ts 18-32) and the reduce
\* of 69-73; refined says whether the refinement of 29-32 was run
registerErrors(form, refined) ==
    errorsOf(("userId" :> userIdIssues(form.userId))
               @@ ("email" :> IF form.email THEN <<>> ELSE <<"email">>)
               @@ ("password" :> newPasswordIssues(form.password))
               @@ ("confirmPassword" :>
                     IF refined /\ ~form.confirmed THEN <<"mismatch">> ELSE <<>>))

ActIdle ==
    [pc |-> "idle", variant |-> "", name |-> "", form |-> <<>>,
     apiCalls |-> 0, signInCalls |-> 0, api |-> "none", signIn |-> "none",
     session |-> "none", result |-> [kind |-> "none"]]

\* what the catch block gives: part_005 throws the NEXT_REDIRECT error again
\* (69-72, 121-123), userActions.ts returns the error state for every error
\* (50-52, 94-96)
caught(a, error) ==
    IF a.variant = "part_005" /\ error = "NEXT_REDIRECT"
    THEN [a EXCEPT !.pc = "done", !.result = [kind |-> "redirect", to |-> "/home"]]
    ELSE [a EXCEPT !.pc = "done",
                   !.result = [kind |-> "error",
                               error |-> IF a.name = "login" THEN "authFailed"
                                         ELSE "registerFailed"]]

\* login 14-34 / 16-36: the form is read and validated; a valid form goes on
\* to the API call of 36 / 38
login(variant, form) ==
    /\ act.pc \in {"idle", "done"}
    /\ LET a == [ActIdle EXCEPT !.variant = variant, !.name = "login", !.form = form]
           errors == loginErrors(variant, form)
       IN act' = IF DOMAIN errors # {}
                 THEN [a EXCEPT !.pc = "done",
                                !.result = [kind |-> "errors", errors |-> errors]]
                 ELSE [a EXCEPT !.pc = "api", !.apiCalls = 1]
    /\ UNCHANGED <<mw, varsClient, varsPolicy, varsEndpoint, varsUtil, varsHost, varsRegistry>>

\* register 55-75 / 78-98; the refinement of the schema runs when no field has
\* an issue, and may or may not run otherwise
register(variant, form) ==
    /\ act.pc \in {"idle", "done"}
    /\ \E refined \in BOOLEAN :
         /\ DOMAIN registerErrors(form, FALSE) = {} => refined
         /\ LET a == [ActIdle EXCEPT !.variant = variant, !.name = "register",
                                     !.form = form]
                errors == registerErrors(form, refined)
            IN act' = IF DOMAIN errors # {}
                      THEN [a EXCEPT !.pc = "done",
                                     !.result = [kind |-> "errors", errors |-> errors]]
                      ELSE [a EXCEPT !.pc = "api", !.apiCalls = 1]
    /\ UNCHANGED <<mw, varsClient, varsPolicy, varsEndpoint, varsUtil, varsHost, varsRegistry>>

\* the API call of 36, 77 / 38, 101 settles: it rejects, resolves with no
\* user (part_005 login 41-43) or resolves with the user; then signIn is called
apiSettles(outcome) ==
    /\ act.pc = "api"
    /\ LET a == [act EXCEPT !.api = outcome] IN
       act' = IF outcome = "rejected" THEN caught(a, "apiError")
              ELSE IF outcome = "noUser" /\ a.variant = "part_005" /\ a.name = "login"
              THEN [a EXCEPT !.pc = "done",
                             !.result = [kind |-> "error", error |-> "authFailed"]]
              ELSE [a EXCEPT !.pc = "signIn", !.signInCalls = 1]
    /\ UNCHANGED <<mw, varsClient, varsPolicy, varsEndpoint, varsUtil, varsHost, varsRegistry>>

\* signIn of 39-43, 80-85 / 49-56, 104-108 settles; userActions.ts then calls
\* redirect (49, 93) inside the try block, part_005 calls auth() (63, 114)
signInSettles(outcome) ==
    /\ act.pc = "signIn"
    /\ LET a == [act EXCEPT !.signIn = outcome] IN
       act' = IF outcome = "rejected" THEN caught(a, "signInError")
              ELSE IF outcome = "error"
              THEN [a EXCEPT !.pc = "done",
                             !.result = [kind |-> "error",
                                         error |-> IF a.variant = "part_005"
                                                      /\ a.name = "register"
                                                   THEN "signInFailed"
                                                   ELSE "sessionFailed"]]
              ELSE IF a.variant = "userActions" THEN caught(a, "NEXT_REDIRECT")
              ELSE [a EXCEPT !.pc = "auth"]
    /\ UNCHANGED <<mw, varsClient, varsPolicy, varsEndpoint, varsUtil, varsHost, varsRegistry>>

\* part_005: auth() of 63, 114 settles, then redirect (67, 119) inside the try
authSettles(outcome) ==
    /\ act.pc = "auth"
    /\ LET a == [act EXCEPT !.session = outcome] IN
       act' = IF outcome = "rejected" THEN caught(a, "authError")
              ELSE IF outcome = "noUser"
              THEN [a EXCEPT !.pc = "done",
                             !.result = [kind |-> "error", error |-> "sessionFailed"]]
              ELSE caught(a, "NEXT_REDIRECT")
    /\ UNCHANGED <<mw, varsClient, varsPolicy, varsEndpoint, varsUtil, varsHost, varsRegistry>>

----------------------------------------------------------------------------
(* middleware.ts 36-53.  A path is the sequence of its characters. *)

\* publicPaths 36
publicPaths ==
    {<<"/", "l", "o", "g", "i", "n">>,
     <<"/", "r", "e", "g", "i", "s", "t", "e", "r">>,
     <<"/", "a", "u", "t", "h">>}

\* req.nextUrl.pathname of the requests
RequestPaths ==
    {<<"/", "l", "o", "g", "i", "n">>,
     <<"/", "a", "u", "t", "h", "/", "e", "r", "r", "o", "r">>,
     <<"/", "r", "e", "g", "i", "s", "t", "e", "r">>,
     <<"/", "h", "o", "m", "e">>,
     <<"/", "q", "u", "e", "s", "t", "i", "o", "n", "s">>,
     <<"/", "a", "u", "t", "h", "o", "r", "s">>,
     <<"/">>}

\* String.prototype.startsWith
startsWith(str, prefix) ==
    Len(prefix) <= Len(str) /\ SubSeq(str, 1, Len(prefix)) = prefix

\* 39-41
isPublicPath(pathname) == \E path \in publicPaths : startsWith(pathname, path)

MwIdle == [pc |-> "idle", pathname |-> <<>>, session |-> FALSE, authCalls |-> 0,
           response |-> "none"]

InitApp == act = ActIdle /\ mw = MwIdle

\* middleware 38-53 for a request of someone who has a session or has none
middleware(pathname, hasSession) ==
    /\ mw' = IF isPublicPath(pathname)
             THEN [MwIdle EXCEPT !.pc = "done", !.pathname = pathname,
                                 !.session = hasSession, !.response = "next"]
             ELSE [MwIdle EXCEPT !.pc = "done", !.pathname = pathname,
                                 !.session = hasSession, !.authCalls = 1,
                                 !.response = IF hasSession THEN "next"
                                              ELSE "redirect:/login"]
    /\ UNCHANGED <<act, varsClient, varsPolicy, varsEndpoint, varsUtil, varsHost, varsRegistry>>

----------------------------------------------------------------------------
(* Specifications *)

\* the state of the module-level variables as the modules are loaded
InitClient ==
    /\ now = 0
    /\ circuitBreakers = <<>>
    /\ calls = [c \in Calls |-> CallIdle]
    /\ openedAt = [d \in Domains |-> -1]

InitPolicy ==
    /\ policies = <<>>
    /\ policiesByKey = <<>>
    /\ instances = 0

Init ==
    /\ InitClient
    /\ InitPolicy
    /\ InitEndpoint
    /\ InitUtil
    /\ InitHost
    /\ InitRegistry
    /\ InitApp
    /\ hosts = {"localhost:8081"}
    /\ \E cfg \in ApiConfigs : apiConfig = [d \in Domains |-> cfg]

Next ==
    \/ \E c \in Calls, d \in hosts, t \in TimeoutOpts : StartCall(c, d, t)
    \/ \E c \in Calls, s \in Statuses : FetchResolve(c, s)
    \/ \E c \in Calls : FetchReject(c)
    \/ \E c \in Calls : AbortFire(c)
    \/ \E c \in Calls : BackoffElapsed(c)
    \/ Tick

Spec == Init /\ [][Next]_vars

\* fetchApi with the configuration of the host read from the environment
InitEnv ==
    /\ InitClient
    /\ InitPolicy
    /\ InitEndpoint
    /\ InitUtil
    /\ InitHost
    /\ InitRegistry
    /\ InitApp
    /\ hosts = {"localhost:8081"}
    /\ \E env \in Envs : apiConfig = [d \in Domains |-> loadApiConfig(env)]

SpecEnv == InitEnv /\ [][Next]_vars

\* the getPolicy caches, with no host configured in API_DOMAINS
InitPolicyOnly ==
    /\ InitClient
    /\ InitPolicy
    /\ InitEndpoint
    /\ InitUtil
    /\ InitHost
    /\ InitRegistry
    /\ InitApp
    /\ hosts = Domains
    /\ apiConfig = <<>>

NextPolicy ==
    \/ \E d \in hosts, t \in PolicyTimeoutOpts : getPolicy(d, t)
    \/ \E d \in hosts, t \in PolicyTimeoutOpts : getPolicyByKey(d, t)

SpecPolicy == InitPolicyOnly /\ [][NextPolicy]_vars

\* the endpoint client
InitEndpointOnly ==
    /\ InitClient
    /\ InitPolicy
    /\ InitEndpoint
    /\ InitUtil
    /\ InitHost
    /\ InitRegistry
    /\ InitApp
    /\ hosts = {}
    /\ apiConfig = <<>>

\* the responses of the upstream to the endpoint client; 0 is a network failure
EndpointStatuses == {0, 404, 500}

NextEndpoint ==
    \/ \E r \in Reqs, key \in KeysInUse : bffApiClient(r, key)
    \/ \E r \in Reqs, s \in Statuses : fetchOk(r, s)
    \/ \E r \in Reqs, s \in EndpointStatuses : fetchFails(r, s)
    \/ \E r \in Reqs : retryElapsed(r)
    \/ \E r \in Reqs : testEnded(r)
    \/ \E r \in Reqs : timeoutFires(r)
    \/ \E key \in KeysInUse : halfOpenAfterElapses(key)

SpecEndpoint == InitEndpointOnly /\ [][NextEndpoint]_vars

\* the endpoint client with callers of the admin service, which configures
\* minimumThroughput, and callers that name an endpoint the registry lacks
AdminKeys == DOMAIN endpointConfigs.admin.endpoints

\* an endpoint key that the registry does not hold
AbsentKeys == {"getNothing"}

NextAdmin ==
    \/ \E r \in Reqs, key \in AdminKeys \cup AbsentKeys : bffApiClient(r, key)
    \/ \E r \in Reqs, s \in Statuses : fetchOk(r, s)
    \/ \E r \in Reqs, s \in EndpointStatuses : fetchFails(r, s)
    \/ \E r \in Reqs : retryElapsed(r)
    \/ \E r \in Reqs : testEnded(r)
    \/ \E r \in Reqs : timeoutFires(r)
    \/ \E key \in AdminKeys : halfOpenAfterElapses(key)

SpecAdmin == InitEndpointOnly /\ [][NextAdmin]_vars

\* the endpoint client called through the facade
FacadeKeys == {"getExams"}

NextFacade ==
    \/ \E r \in Reqs, key \in FacadeKeys, verb \in Verbs : apiVerb(r, key, verb)
    \/ \E r \in Reqs, s \in Statuses : fetchOk(r, s)
    \/ \E r \in Reqs, s \in EndpointStatuses : fetchFails(r, s)
    \/ \E r \in Reqs : retryElapsed(r)
    \/ \E r \in Reqs : testEnded(r)
    \/ \E r \in Reqs : timeoutFires(r)
    \/ \E key \in FacadeKeys : halfOpenAfterElapses(key)

SpecFacade == InitEndpointOnly /\ [][NextFacade]_vars

\* the server actions and the middleware
NextApp ==
    \/ \E v \in Variants, form \in LoginForms : login(v, form)
    \/ \E v \in Variants, form \in RegisterForms : register(v, form)
    \/ \E outcome \in {"rejected", "noUser", "user"} : apiSettles(outcome)
    \/ \E outcome \in {"rejected", "error", "ok"} : signInSettles(outcome)
    \/ \E outcome \in {"rejected", "noUser", "user"} : authSettles(outcome)
    \/ \E pathname \in RequestPaths, hasSession \in BOOLEAN : middleware(pathname, hasSession)

SpecApp == InitEndpointOnly /\ [][NextApp]_vars

\* the registry functions alone
NextRegistry ==
    \/ \E endpoint \in RegistryEntries, params \in Params : buildUrl(endpoint, params)
    \/ \E key \in EndpointKeys : readSettings(key)

SpecRegistry == InitEndpointOnly /\ [][NextRegistry]_vars

\* the retry helper of bffApiUtils under userClient.ts
NextUtil ==
    \/ utilBffApiClient
    \/ \E s \in Statuses : utilFetchOk(s)
    \/ \E e \in UtilErrors : utilFetchFails(e)
    \/ utilWaitElapsed

SpecUtil == InitEndpointOnly /\ [][NextUtil]_vars

\* fetchApi over the cockatiel policies, with callers of two hosts
InitHostOnly ==
    /\ InitClient
    /\ InitPolicy
    /\ InitEndpoint
    /\ InitUtil
    /\ InitHost
    /\ InitRegistry
    /\ InitApp
    /\ hosts = Domains
    /\ \E cfg \in {c \in ApiConfigs : c.retry.maxAttempts = 1} :
          apiConfig = [d \in Domains |-> cfg]

NextHost ==
    \/ \E f \in Fetches, d \in hosts : hostFetchApi(f, d)
    \/ \E f \in Fetches, s \in Statuses : hostFetchResolve(f, s)
    \/ \E f \in Fetches : hostFetchReject(f)
    \/ \E f \in Fetches : hostRetryElapsed(f)
    \/ \E f \in Fetches : hostTestEnded(f)
    \/ \E f \in Fetches : hostTimeoutFires(f)
    \/ \E d \in hosts : hostHalfOpenAfterElapses(d)

SpecHost == InitHostOnly /\ [][NextHost]_vars

\* The event loop runs every timer that is due: the timers of the policies
\* are taken fairly.  Nothing obliges the upstream to answer a fetch.
SpecHostFair ==
    /\ SpecHost
    /\ \A f \in Fetches :
          /\ WF_vars(hostTimeoutFires(f))
          /\ WF_vars(hostRetryElapsed(f))
          /\ WF_vars(hostTestEnded(f))
    /\ \A d \in Domains : WF_vars(hostHalfOpenAfterElapses(d))

----------------------------------------------------------------------------
(* Claims *)

\* no breaker of the service of `key` is due for, or in, its half-open test
noTestDue(key) ==
    \A k \in DOMAIN endpointBreakers :
        serviceOf(k) = serviceOf(key)
        => (~endpointBreakers[k].elapsed /\ endpointBreakers[k].state # "halfOpen")

\* C1 (as claimed, SpecEndpoint): once a service has had failureThreshold
\* consecutive failing calls, on whatever endpoints of the service, the next
\* call to any endpoint of the service is rejected as circuit-open without a
\* fetch.
C1_ServiceBreakerShared ==
    [][\A r \in Reqs, key \in KeysInUse :
         (/\ bffApiClient(r, key)
          /\ callStreak[serviceOf(key)] >= getCircuitBreakerConfig(key).threshold
          /\ noTestDue(key))
         => /\ reqs'[r].outcome = "circuitOpen"
            /\ reqs'[r].netCalls = 0]_vars

\* C2 (as claimed, SpecPolicy): each getPolicy cache holds at most one
\* circuit-breaker instance per host, whatever timeouts the calls passed.
C2_OneBreakerPerHost ==
    \A d \in Domains :
        /\ Cardinality({policies[k].circuitBreaker : k \in DOMAIN policies \cap {d}}) <= 1
        /\ Cardinality({policiesByKey[k].circuitBreaker :
                           k \in {k \in DOMAIN policiesByKey : k[1] = d}}) <= 1

\* ---- fetchApi over the hand-written breaker (Spec) ----

\* the step in which call c passes through CircuitBreaker.execute
AttemptStep(c) ==
    \/ \E d \in hosts, t \in TimeoutOpts : StartCall(c, d, t)
    \/ BackoffElapsed(c)

\* the step in which the attempt of call c that is in flight fails
FailStep(c) == FetchReject(c) \/ AbortFire(c)

\* fetch invocations of the logical call c is in before a step
netCallsBefore(c) == IF calls[c].pc = "backoff" THEN calls[c].netCalls ELSE 0

resetTimeoutOf(d) == getDomainConfig(apiConfig, d).circuitBreaker.resetTimeout

\* C3: while the breaker of a host is open and no more than resetTimeout has
\* passed since its last recorded failure, every pass through execute is
\* rejected and fetch is not invoked.
C3_OpenBreakerRejects ==
    [][\A c \in Calls :
         LET d == calls'[c].domain IN
         (/\ AttemptStep(c)
          /\ d \in DOMAIN circuitBreakers
          /\ circuitBreakers[d].isOpen
          /\ now - circuitBreakers[d].lastFailureTime <= resetTimeoutOf(d))
         => /\ calls'[c].lastAttempt = "rejected"
            /\ calls'[c].netCalls = netCallsBefore(c)
            /\ circuitBreakers'[d] = circuitBreakers[d]]_vars

\* C3 witness: an attempt has just been rejected by a breaker that is open
\* and whose reset timeout has not elapsed
C3_Witness ==
    \E c \in Calls :
        /\ calls[c].lastAttempt = "rejected"
        /\ calls[c].pc = "backoff"
        /\ circuitBreakers[calls[c].domain].isOpen
        /\ now - circuitBreakers[calls[c].domain].lastFailureTime
             <= resetTimeoutOf(calls[c].domain)

\* C4 (as claimed): with the breaker opened at T and open duration D, a pass
\* through execute at any time up to T+D-1 is rejected, and one at T+D+1 is
\* let through, whatever the other calls to the host did in between.
C4_WindowFromOpening ==
    [][\A c \in Calls :
         LET d == calls'[c].domain
             T == openedAt[d]
             D == resetTimeoutOf(d)
         IN (AttemptStep(c) /\ T # -1)
            => /\ (now <= T + D - 1 => calls'[c].lastAttempt = "rejected")
               /\ (now = T + D + 1 => calls'[c].lastAttempt # "rejected")]_vars

\* C5 (as claimed): a trial call that fails re-opens the breaker at once and
\* restarts the open period at the time of that failure.
C5_TrialFailureReopens ==
    [][\A c \in Calls :
         LET d == calls[c].domain IN
         (calls[c].pc = "inflight" /\ calls[c].trial /\ FailStep(c))
         => /\ circuitBreakers'[d].isOpen
            /\ circuitBreakers'[d].lastFailureTime = now]_vars

\* C6 (as claimed): a trial call that succeeds leaves the breaker closed with
\* a consecutive-failure count of 0.
C6_TrialSuccessCloses ==
    [][\A c \in Calls :
         LET d == calls[c].domain IN
         (calls[c].pc = "inflight" /\ calls[c].trial /\ FetchResolve(c, 200))
         => /\ ~circuitBreakers'[d].isOpen
            /\ circuitBreakers'[d].failures = 0]_vars

\* C7 (as claimed): while a trial call is in flight, every other pass through
\* execute for the same host is rejected.
C7_SingleTrial ==
    [][\A c \in Calls :
         (/\ AttemptStep(c)
          /\ \E o \in Calls \ {c} :
                /\ calls[o].pc = "inflight"
                /\ calls[o].trial
                /\ calls[o].domain = calls'[c].domain)
         => calls'[c].lastAttempt = "rejected"]_vars

\* C8 (as claimed): a logical call whose every attempt was answered with
\* HTTP 500 has made exactly retry.maxAttempts fetches when it fails with the
\* HTTP error.
C8_Http500UsesAllAttempts ==
    \A c \in Calls :
        (/\ calls[c].pc = "done"
         /\ calls[c].result = "httpError"
         /\ calls[c].status = 500
         /\ calls[c].lastError = "none")
        => calls[c].netCalls = getDomainConfig(apiConfig, calls[c].domain).retry.maxAttempts

\* C9 (as claimed, SpecEndpoint): a try answered with HTTP 404 ends the
\* logical call; no backoff delay is waited after it.
C9_Http404NotRetried ==
    \A r \in Reqs : reqs[r].pc = "backoff" => reqs[r].lastStatus # 404

\* C10 (as claimed): an attempt rejected by the open breaker ends the logical
\* call at once; the retry loop never waits a backoff delay after it.
C10_CircuitOpenIsTerminal ==
    \A c \in Calls :
        calls[c].lastError = "circuitOpen"
        => (calls[c].pc = "done" /\ calls[c].result = "circuitOpen")

\* C11 (as claimed): every attempt that passes the breaker goes to the network
\* with a deadline of its own, a full timeout after the start of that attempt.
C11_FreshDeadlinePerAttempt ==
    [][\A c \in Calls :
         (AttemptStep(c) /\ calls'[c].lastAttempt # "rejected")
         => /\ calls'[c].pc = "inflight"
            /\ calls'[c].deadline
                 = now + getDomainConfig(apiConfig, calls'[c].domain).timeout]_vars

\* C12 (as claimed, SpecEndpoint): the breaker is the innermost layer, so
\* every try that fails is recorded in the breaker: it adds one to the
\* consecutive-failure count (which the model keeps up to the threshold).
C12_EveryAttemptCounted ==
    [][\A r \in Reqs, s \in EndpointStatuses :
         LET key == reqs[r].key IN
         fetchFails(r, s)
         => endpointBreakers'[key].count
              = Min(endpointBreakers[key].count + 1,
                    getCircuitBreakerConfig(key).threshold)]_vars

\* C13 (as claimed, SpecUtil): the wait before retry k of a logical call is
\* min(initialDelay * 2^(k-1), maxDelay).
C13_BackoffFormula ==
    LET RECURSIVE Pow(_, _)
        Pow(base, e) == IF e = 0 THEN 1 ELSE base * Pow(base, e - 1)
    IN \A k \in 1..Len(utilCall.waits) :
           utilCall.waits[k]
             = Min(RETRY_CONFIG.initialDelay * Pow(2, k - 1), RETRY_CONFIG.maxDelay)

\* C14 (as claimed): an attempt that fails with a network error or is
\* answered with HTTP 500 is followed by a backoff wait and another attempt
\* while fewer than retry.maxAttempts attempts have been made.
C14_RetryableFailureRetried ==
    [][\A c \in Calls :
         (/\ calls[c].pc = "inflight"
          /\ calls[c].attempt
               < getDomainConfig(apiConfig, calls[c].domain).retry.maxAttempts
          /\ (FetchReject(c) \/ FetchResolve(c, 500)))
         => calls'[c].pc = "backoff"]_vars

\* the error with which the attempt of call c fails in a step, "none" if the
\* step is not the failure of an attempt of c
attemptError(c) ==
    IF calls[c].pc = "inflight" /\ FetchReject(c) THEN "netError"
    ELSE IF calls[c].pc = "inflight" /\ AbortFire(c) THEN "abortError"
    ELSE IF AttemptStep(c) /\ calls'[c].lastAttempt = "rejected" THEN "circuitOpen"
    ELSE IF AttemptStep(c) /\ calls'[c].lastAttempt = "aborted" THEN "abortError"
    ELSE "none"

\* C15: when attempt number retry.maxAttempts of a logical call fails, the
\* call ends in that step and fails with the error of that attempt, whatever
\* the earlier attempts failed with.
C15_LastErrorSurfaced ==
    [][\A c \in Calls :
         (/\ attemptError(c) # "none"
          /\ calls'[c].attempt
               = getDomainConfig(apiConfig, calls'[c].domain).retry.maxAttempts)
         => /\ calls'[c].pc = "done"
            /\ calls'[c].result = attemptError(c)]_vars

\* C15 witness: a call has failed as circuit-open on its second attempt after
\* a first attempt that failed on the network
C15_Witness ==
    \E c \in Calls :
        /\ calls[c].pc = "done"
        /\ calls[c].result = "circuitOpen"
        /\ calls[c].attempt = 2
        /\ calls[c].netCalls = 1

\* C16: within one logical call attempt N+1 starts only from the backoff wait
\* that follows attempt N, with no fetch of the call in flight, and only once
\* the delay set when attempt N ended has fully elapsed.
C16_AttemptsSequential ==
    [][\A c \in Calls :
         /\ (calls'[c].attempt > 1 /\ calls'[c].attempt # calls[c].attempt)
            => /\ calls[c].pc = "backoff"
               /\ calls'[c].attempt = calls[c].attempt + 1
               /\ now >= calls[c].wakeAt
         /\ (calls'[c].netCalls > 1 /\ calls'[c].netCalls # calls[c].netCalls)
            => /\ calls[c].pc = "backoff"
               /\ calls'[c].netCalls = calls[c].netCalls + 1
         /\ (/\ calls'[c].pc = "backoff"
             /\ (calls[c].pc # "backoff" \/ calls'[c].attempt # calls[c].attempt))
            => calls'[c].wakeAt = now + calls'[c].delay]_vars

\* C16 witness: the second attempt of a call is in flight, started after the
\* backoff wait that followed the first
C16_Witness ==
    \E c \in Calls :
        /\ calls[c].pc = "inflight"
        /\ calls[c].attempt = 2
        /\ calls[c].netCalls = 2
        /\ now >= 1

\* C17 (as claimed, SpecHostFair): every logical call that has started
\* eventually completes, also when the upstream never answers, because the
\* timeout ends the unanswered attempt.
C17_CallsComplete ==
    \A f \in Fetches :
        (fetches[f].pc \in {"inflight", "backoff", "waitTest"}) ~> (fetches[f].pc = "done")

\* the breaker of a host is created or changed in a step
hostBreakerChanged(d) ==
    /\ d \in DOMAIN hostBreakers'
    /\ (d \notin DOMAIN hostBreakers \/ hostBreakers'[d] # hostBreakers[d])

\* C18 (SpecHost): the breaker of a host is created or changed only by a
\* step of a call to that host or by its own halfOpenAfter timer, and an
\* attempt is rejected as circuit-open only when the breaker of its own host
\* is open; calls to one host leave the breaker of the other unchanged.
C18_HostsIsolated ==
    [][\A d \in Domains :
         /\ hostBreakerChanged(d)
            => \/ hostHalfOpenAfterElapses(d)
               \/ \E f \in Fetches :
                     fetches'[f] # fetches[f] /\ fetches'[f].domain = d
         /\ \A f \in Fetches :
              (/\ fetches'[f] # fetches[f]
               /\ fetches'[f].domain = d
               /\ fetches[f].pc # "inflight"
               /\ fetches'[f].netCalls = (IF fetches[f].pc \in {"idle", "done"}
                                          THEN 0 ELSE fetches[f].netCalls)
               /\ fetches'[f].pc \in {"backoff", "done"})
              => /\ d \in DOMAIN hostBreakers
                 /\ hostBreakers[d].state = "open"]_vars

\* C18 witness: the breaker of one host is open after failures while a call
\* to the other host is in flight and the breaker of that host is closed with
\* no failure counted
C18_Witness ==
    \E f \in Fetches, a \in Domains :
        /\ a \in DOMAIN hostBreakers
        /\ hostBreakers[a].state = "open"
        /\ fetches[f].pc = "inflight"
        /\ fetches[f].domain # a
        /\ hostBreakers[fetches[f].domain].state = "closed"
        /\ hostBreakers[fetches[f].domain].count = 0

\* C19: every failure of an attempt in flight is recorded in the breaker of
\* its host as exactly one increment of the failure count, together with the
\* threshold check and the opening, in the one step of that failure; and no
\* step raises a count by more than one.
C19_FailureRecordedAtomically ==
    [][/\ \A c \in Calls :
            LET d == calls[c].domain
                cfg == getDomainConfig(apiConfig, d)
            IN (calls[c].pc = "inflight" /\ FailStep(c))
               => /\ circuitBreakers'[d].failures = circuitBreakers[d].failures + 1
                  /\ circuitBreakers'[d].lastFailureTime = now
                  /\ circuitBreakers'[d].isOpen
                       = (circuitBreakers[d].isOpen
                          \/ circuitBreakers[d].failures + 1
                               >= cfg.circuitBreaker.failureThreshold)
      /\ \A d \in DOMAIN circuitBreakers :
            circuitBreakers'[d].failures > circuitBreakers[d].failures
            => circuitBreakers'[d].failures = circuitBreakers[d].failures + 1]_vars

\* C19 witness: two calls to one host were in flight at the same time, both
\* failed, and the breaker of the host counts two failures
C19_Witness ==
    \E c \in Calls, o \in Calls :
        LET timeout == getDomainConfig(apiConfig, calls[c].domain).timeout IN
        /\ c # o
        /\ calls[c].pc = "backoff" /\ calls[o].pc = "backoff"
        /\ calls[c].attempt = 1 /\ calls[o].attempt = 1
        /\ calls[c].lastError = "netError" /\ calls[o].lastError = "netError"
        /\ calls[c].domain = calls[o].domain
        /\ calls[o].deadline - timeout < calls[c].wakeAt - calls[c].delay
        /\ calls[c].deadline - timeout < calls[o].wakeAt - calls[o].delay
        /\ circuitBreakers[calls[c].domain].failures = 2

C21_SuccessResetsCount ==
    [][/\ \A c \in Calls, status \in {200, 204} :
            LET d == calls[c].domain IN
            (calls[c].pc = "inflight" /\ FetchResolve(c, status))
            => /\ circuitBreakers'[d].failures = 0
               /\ circuitBreakers'[d].isOpen = circuitBreakers[d].isOpen
      /\ \A d \in DOMAIN circuitBreakers' :
            ~circuitBreakers'[d].isOpen
            => circuitBreakers'[d].failures
                 < getDomainConfig(apiConfig, d).circuitBreaker.failureThreshold]_vars

\* C21 witness: with a threshold of 2, a call whose first attempt failed
\* has succeeded on its second attempt and the breaker is closed with count 0
C21_Witness ==
    \E c \in Calls :
        /\ calls[c].pc = "done"
        /\ calls[c].result = "ok"
        /\ calls[c].attempt = 2
        /\ calls[c].netCalls = 2
        /\ getDomainConfig(apiConfig, calls[c].domain).circuitBreaker.failureThreshold = 2
        /\ ~circuitBreakers[calls[c].domain].isOpen
        /\ circuitBreakers[calls[c].domain].failures = 0

C23_FailuresClassified ==
    \A c \in Calls :
        (calls[c].pc = "done" /\ calls[c].result # "ok")
        => \/ calls[c].result \in {"netError", "abortError", "circuitOpen"}
           \/ calls[c].result = "httpError" /\ ~ok(calls[c].status)

\* C24 (as claimed, SpecAdmin): a call that names an endpoint absent from the
\* registry ends at once with the UnknownEndpoint failure, goes to the network
\* never, is not retried, and creates and changes no breaker.
C24_UnknownEndpointClassified ==
    [][\A r \in Reqs, key \in AbsentKeys :
         bffApiClient(r, key)
         => /\ reqs'[r].pc = "done"
            /\ reqs'[r].outcome = "unknownEndpoint"
            /\ reqs'[r].netCalls = 0
            /\ reqs'[r].retries = 0
            /\ endpointBreakers' = endpointBreakers]_vars

\* C25 (as claimed): a call whose attempt is answered with status 204 ends
\* successfully with the empty object as its data; the body of the response
\* is not parsed, so no parse error can end the call.
C25_NoContentYieldsEmpty ==
    \A c \in Calls :
        (calls[c].pc = "done" /\ calls[c].status = 204)
        => calls[c].result = "empty"

C27_SettingsInherited ==
    resolved.pc = "settings"
    => LET service == endpointConfigs[serviceOf(resolved.key)]
           own == service.endpoints[resolved.key]
       IN /\ resolved.timeout = IF "timeout" \in DOMAIN own THEN own.timeout
                                ELSE service.defaultTimeout
          /\ resolved.retry = IF "retry" \in DOMAIN own THEN own.retry
                              ELSE service.retry
          /\ resolved.circuitBreaker = service.circuitBreaker

\* C27 witness: the settings of submitExam have been read, which declares a
\* timeout and retry settings that differ from those of the exam service
C27_Witness ==
    /\ resolved.pc = "settings"
    /\ resolved.key = "submitExam"
    /\ resolved.timeout = 15000
    /\ resolved.retry.maxAttempts = 5
    /\ resolved.retry # endpointConfigs.exam.retry
    /\ resolved.circuitBreaker.threshold = 3

\* C30 (as claimed, SpecRegistry): for a template that names no token twice,
\* the returned path is the template with each token of a supplied key
\* replaced by its value and nothing else changed: a token is the colon and
\* the whole name after it (:idx is no token of id), a value put in is not
\* read again, and a parameter that names no token changes nothing.
C30_OnlySuppliedTokensChanged ==
    LET template == resolved.endpoint.path
        params == resolved.params
        valueOf(name) ==
            IF \E i \in 1..Len(params) : params[i].key = name
            THEN params[CHOOSE i \in 1..Len(params) : params[i].key = name].value
            ELSE <<":">> \o name
        RECURSIVE tokenEnd(_)
        tokenEnd(j) ==
            IF j < Len(template) /\ template[j + 1] \notin {"/", ":"}
            THEN tokenEnd(j + 1) ELSE j
        RECURSIVE single(_)
        single(i) ==
            IF i > Len(template) THEN <<>>
            ELSE IF template[i] = ":"
            THEN valueOf(SubSeq(template, i + 1, tokenEnd(i))) \o single(tokenEnd(i) + 1)
            ELSE <<template[i]>> \o single(i + 1)
    IN (/\ resolved.pc = "url"
        /\ Cardinality({i \in 1..Len(template) : template[i] = ":"}) <= 1)
       => resolved.url.path = single(1)

\* C29 (as claimed): an attempt answered with HTTP 500 is a failure for the
\* breaker of its host: the failure count grows by one and is not set to 0.
C29_ServerErrorCountsAsFailure ==
    [][\A c \in Calls :
         LET d == calls[c].domain IN
         (calls[c].pc = "inflight" /\ FetchResolve(c, 500))
         => circuitBreakers'[d].failures = circuitBreakers[d].failures + 1]_vars

\* C28 (SpecFacade): a verb of the facade starts exactly one call of the
\* executor, for the endpoint named and with the verb as its HTTP method: the
\* call has made at most its first network attempt and no retry, no other
\* call changes, and no breaker but that of the endpoint is touched, which
\* stays as it was unless the call is the trial of the open breaker.
C28_FacadeDelegatesOnce ==
    [][\A r \in Reqs, key \in FacadeKeys, verb \in Verbs :
         apiVerb(r, key, verb)
         => /\ reqs'[r].key = key
            /\ reqs'[r].method
                 = CASE verb = "get" -> "GET" [] verb = "post" -> "POST"
                     [] verb = "put" -> "PUT" [] verb = "delete" -> "DELETE"
                     [] verb = "patch" -> "PATCH"
            /\ reqs'[r].retries = 0
            /\ reqs'[r].netCalls <= 1
            /\ \A o \in Reqs \ {r} : reqs'[o] = reqs[o]
            /\ \A k \in DOMAIN endpointBreakers :
                  \/ endpointBreakers'[k] = endpointBreakers[k]
                  \/ /\ k = key
                     /\ endpointBreakers[k].state = "open"
                     /\ endpointBreakers[k].elapsed
                     /\ endpointBreakers'[k].state = "halfOpen"
                     /\ endpointBreakers'[k].count = endpointBreakers[k].count]_vars

\* C28 witness: a call started with the verb delete has gone to the network
\* once, as a DELETE
C28_Witness ==
    \E r \in Reqs :
        /\ reqs[r].pc = "inflight"
        /\ reqs[r].method = "DELETE"
        /\ reqs[r].key = "getExams"
        /\ reqs[r].netCalls = 1
        /\ reqs[r].retries = 0

\* C31 (as claimed): in every state, a breaker that is open counts at least
\* failureThreshold failures, whatever calls were in flight when it opened.
C31_OpenImpliesThreshold ==
    \A d \in DOMAIN circuitBreakers :
        circuitBreakers[d].isOpen
        => circuitBreakers[d].failures
             >= getDomainConfig(apiConfig, d).circuitBreaker.failureThreshold

\* C32 (as claimed, SpecEndpoint): once a logical call has surfaced its outcome
\* to its caller, a timeout included, no try of that call goes to the network
\* any more and no settled try of it changes a breaker.
C32_NothingAfterOutcome ==
    [][\A r \in Reqs :
         (reqs[r].outcome # "none" /\ reqs[r].pc \notin {"idle", "done"})
         => /\ reqs'[r].netCalls = reqs[r].netCalls
            /\ \A s \in Statuses \cup EndpointStatuses :
                  (fetchOk(r, s) \/ fetchFails(r, s))
                  => endpointBreakers' = endpointBreakers]_vars

\* C33: a pass through execute that the open breaker rejects leaves the
\* failure count, the open flag and the last-failure time of the breaker as
\* they were, so that the open period is not prolonged by it.
C33_RejectionLeavesBreaker ==
    [][\A c \in Calls :
         LET d == calls'[c].domain IN
         (AttemptStep(c) /\ calls'[c].lastAttempt = "rejected")
         => /\ d \in DOMAIN circuitBreakers
            /\ circuitBreakers'[d].failures = circuitBreakers[d].failures
            /\ circuitBreakers'[d].isOpen = circuitBreakers[d].isOpen
            /\ circuitBreakers'[d].lastFailureTime = circuitBreakers[d].lastFailureTime
            /\ openedAt'[d] = openedAt[d]]_vars

\* C33 witness: a call has been rejected later than the last failure the open
\* breaker recorded, and the breaker still shows the time of that failure
C33_Witness ==
    \E c \in Calls :
        /\ calls[c].lastAttempt = "rejected"
        /\ calls[c].lastError = "circuitOpen"
        /\ calls[c].pc = "backoff"
        /\ calls[c].wakeAt = now + calls[c].delay
        /\ circuitBreakers[calls[c].domain].isOpen
        /\ circuitBreakers[calls[c].domain].lastFailureTime < now
        /\ openedAt[calls[c].domain] = circuitBreakers[calls[c].domain].lastFailureTime

\* C34 (as claimed, SpecHost): a logical call makes no more than
\* retry.maxAttempts network attempts.
C34_AtMostMaxAttempts ==
    \A f \in Fetches :
        fetches[f].pc # "idle"
        => fetches[f].netCalls
             <= getDomainConfig(apiConfig, fetches[f].domain).retry.maxAttempts

\* C35 (as claimed, SpecApp): a login whose backend authentication gave the
\* user and whose sign-in succeeded (with the session then found, where the
\* action looks for it) ends in the redirect to /home, not in an error state.
C35_LoginRedirectsHome ==
    (/\ act.pc = "done"
     /\ act.name = "login"
     /\ act.api = "user"
     /\ act.signIn = "ok"
     /\ act.variant = "part_005" => act.session = "user")
    => act.result = [kind |-> "redirect", to |-> "/home"]

\* C36 (as claimed, SpecApp): a request whose path is none of /login,
\* /register, /auth nor below one of them, made without a session, is
\* answered with the redirect to /login; a request to a public path is passed
\* on and auth() is not called for it.
C36_MiddlewareGuards ==
    LET under(pathname, path) ==
            pathname = path \/ startsWith(pathname, path \o <<"/">>)
        public == \E path \in publicPaths : under(mw.pathname, path)
    IN mw.pc = "done"
       => /\ (~public /\ ~mw.session) => mw.response = "redirect:/login"
          /\ public => (mw.response = "next" /\ mw.authCalls = 0)

\* C37 (SpecApp): login and register called with a form that fails validation
\* end at once with the error messages of the fields that failed, and have
\* called neither the backend API nor signIn.
C37_InvalidFormStopsEarly ==
    LET form == act.form
        stopped ==
            /\ act.pc = "done"
            /\ act.result.kind = "errors"
            /\ act.apiCalls = 0
            /\ act.signInCalls = 0
    IN /\ (/\ act.name = "login"
           /\ (form.id < 3 \/ form.id > 50 \/ form.password < 8))
          => /\ stopped
             /\ DOMAIN act.result.errors
                  = {f \in {idField(act.variant)} : form.id < 3 \/ form.id > 50}
                      \cup {f \in {"password"} : form.password < 8}
       /\ (/\ act.name = "register"
           /\ \/ form.userId.len < 3 \/ form.userId.len > 20 \/ ~form.userId.word
              \/ ~form.email
              \/ form.password.len < 8 \/ ~form.password.mixed
              \/ ~form.confirmed)
          => /\ stopped
             /\ DOMAIN act.result.errors # {}
       /\ (act.pc = "done" /\ act.result.kind = "errors")
          => (act.apiCalls = 0 /\ act.signInCalls = 0)

\* C37 witness: a login with a valid identifier and a password of 7
\* characters has ended with the message for the password alone
C37_Witness ==
    /\ act.pc = "done"
    /\ act.name = "login"
    /\ act.form.id = 3
    /\ act.form.password = 7
    /\ act.result.kind = "errors"
    /\ DOMAIN act.result.errors = {"password"}
    /\ act.result.errors["password"] = "min8"
    /\ act.apiCalls = 0
    /\ act.signInCalls = 0

\* C38 (as claimed, SpecEnv): for every configuration that loadApiConfig
\* builds, a logical call that does not end with the rejection of the open
\* breaker has made at least one network attempt, and what it fails with is
\* the error of an attempt.
C38_AtLeastOneAttempt ==
    \A c \in Calls :
        (calls[c].pc = "done" /\ calls[c].result # "circuitOpen")
        => /\ calls[c].netCalls >= 1
           /\ calls[c].result # "null"

====
